---- MODULE Spec2Model ----
(***************************************************************************)
(* Pet age calculator: the core functions of src/lib/age-utils.ts          *)
(* (calculateHumanAge, getUniqueSpecies, getBreedsBySpecies) and the       *)
(* render / effect cycle of the PetAgeCalculator form component.           *)
(*                                                                         *)
(* JavaScript values: a number is Num(n) or NaN, the absent result is      *)
(* Null.  The numeric fields of a dataset record are finite integers.      *)
(***************************************************************************)
EXTENDS Integers, Sequences, FiniteSets, TLC

\* ---------------------------------------------------------------- bounds
MaxData == 3
MaxAge == 3

\* ------------------------------------------------------- JavaScript values
Null == [t |-> "null"]
NaN == [t |-> "nan"]
Num(n) == [t |-> "num", v |-> n]

\* a * b on JavaScript numbers
JsMul(a, b) == IF a.t = "num" /\ b.t = "num" THEN Num(a.v * b.v) ELSE NaN
\* a + b on JavaScript numbers
JsAdd(a, b) == IF a.t = "num" /\ b.t = "num" THEN Num(a.v + b.v) ELSE NaN
\* a - b on JavaScript numbers
JsSub(a, b) == IF a.t = "num" /\ b.t = "num" THEN Num(a.v - b.v) ELSE NaN
\* a <= b on JavaScript numbers: false as soon as one side is NaN
JsLeq(a, b) == a.t = "num" /\ b.t = "num" /\ a.v <= b.v

\* ---------------------------------------------------------------- dataset
SpeciesNames == {"Dog", "Cat"}
BreedNames == {"Lab", "Mix"}
\* <<firstPhaseYears, firstPhaseValue, laterPerYear>>
\* two well-formed curves and a malformed one, with an empty first phase
\* and a negative later rate (the functions do not validate the dataset)
Curves == {<<2, 3, 1>>, <<1, 2, 4>>, <<0, 2, -1>>}

PetAgeData ==
    {[species |-> s, breed |-> b, firstPhaseYears |-> c[1],
      firstPhaseValue |-> c[2], laterPerYear |-> c[3]] :
        s \in SpeciesNames, b \in BreedNames, c \in Curves}

Datasets == UNION {[1..n -> PetAgeData] : n \in 0..MaxData}

\* the (species, breed) pair is the primary key of the reference data
UniqueKeys(d) ==
    \A i, j \in 1..Len(d) :
        (d[i].species = d[j].species /\ d[i].breed = d[j].breed) => i = j

\* the data file of the form: one record per (species, breed), every breed
\* with its own well-formed curve
BreedCurve(b) == IF b = "Lab" THEN <<2, 3, 1>> ELSE <<1, 2, 4>>

FormDatasets ==
    {d \in Datasets :
        /\ UniqueKeys(d)
        /\ \A i \in 1..Len(d) :
              <<d[i].firstPhaseYears, d[i].firstPhaseValue,
                d[i].laterPerYear>> = BreedCurve(d[i].breed)}

\* -------------------------------------------------------- core functions
\* variant: the predicate of find tests the species only
RECURSIVE FindFrom_speciesOnly(_, _, _, _)
FindFrom_speciesOnly(d, species, breed, i) ==
    IF i > Len(d) THEN 0
    ELSE IF d[i].species = species THEN i
    ELSE FindFrom_speciesOnly(d, species, breed, i + 1)

\* variant: findLast instead of find
RECURSIVE FindFrom_last(_, _, _, _)
FindFrom_last(d, species, breed, i) ==
    IF i > Len(d) THEN 0
    ELSE LET later == FindFrom_last(d, species, breed, i + 1) IN
         IF later # 0 THEN later
         ELSE IF d[i].species = species /\ d[i].breed = breed THEN i
         ELSE 0

\* Array.prototype.find: index of the first element that matches, 0 if none
RECURSIVE FindFrom(_, _, _, _)
FindFrom(d, species, breed, i) ==
    IF i > Len(d) THEN 0
    ELSE IF d[i].species = species /\ d[i].breed = breed THEN i
    ELSE FindFrom(d, species, breed, i + 1)

\* variant: the later years are not counted from the end of the first phase
calculateHumanAge_noOffset(species, breed, petAge, d) ==
    LET i == FindFrom(d, species, breed, 1) IN
    IF i = 0 THEN Null
    ELSE LET firstPhaseYears == Num(d[i].firstPhaseYears)
             firstPhaseValue == Num(d[i].firstPhaseValue)
             laterPerYear == Num(d[i].laterPerYear)
         IN IF JsLeq(petAge, firstPhaseYears)
            THEN JsMul(petAge, firstPhaseValue)
            ELSE JsAdd(JsMul(firstPhaseYears, firstPhaseValue),
                       JsMul(petAge, laterPerYear))

\* variant: the first phase accrues at the later rate
calculateHumanAge_laterRate(species, breed, petAge, d) ==
    LET i == FindFrom(d, species, breed, 1) IN
    IF i = 0 THEN Null
    ELSE LET firstPhaseYears == Num(d[i].firstPhaseYears)
             firstPhaseValue == Num(d[i].firstPhaseValue)
             laterPerYear == Num(d[i].laterPerYear)
         IN IF JsLeq(petAge, firstPhaseYears)
            THEN JsMul(petAge, laterPerYear)
            ELSE JsAdd(JsMul(firstPhaseYears, firstPhaseValue),
                       JsMul(JsSub(petAge, firstPhaseYears), laterPerYear))

\* variant: the later phase forgets what the first phase accrued
calculateHumanAge_dropFirst(species, breed, petAge, d) ==
    LET i == FindFrom(d, species, breed, 1) IN
    IF i = 0 THEN Null
    ELSE LET firstPhaseYears == Num(d[i].firstPhaseYears)
             firstPhaseValue == Num(d[i].firstPhaseValue)
             laterPerYear == Num(d[i].laterPerYear)
         IN IF JsLeq(petAge, firstPhaseYears)
            THEN JsMul(petAge, firstPhaseValue)
            ELSE JsMul(JsSub(petAge, firstPhaseYears), laterPerYear)

calculateHumanAge(species, breed, petAge, d) ==
    LET i == FindFrom(d, species, breed, 1) IN
    IF i = 0 THEN Null
    ELSE LET firstPhaseYears == Num(d[i].firstPhaseYears)
             firstPhaseValue == Num(d[i].firstPhaseValue)
             laterPerYear == Num(d[i].laterPerYear)
         IN IF JsLeq(petAge, firstPhaseYears)
            THEN JsMul(petAge, firstPhaseValue)
            ELSE JsAdd(JsMul(firstPhaseYears, firstPhaseValue),
                       JsMul(JsSub(petAge, firstPhaseYears), laterPerYear))

\* new Set(iterable) spread back to an array: insertion order, a value that
\* is already in the set is not added again
RECURSIVE SetSpread(_, _, _)
SetSpread(xs, i, acc) ==
    IF i > Len(xs) THEN acc
    ELSE IF \E k \in 1..Len(acc) : acc[k] = xs[i]
         THEN SetSpread(xs, i + 1, acc)
         ELSE SetSpread(xs, i + 1, Append(acc, xs[i]))

\* variant: the species column without the Set
getUniqueSpecies_noSet(d) == [i \in 1..Len(d) |-> d[i].species]

getUniqueSpecies(d) ==
    SetSpread([i \in 1..Len(d) |-> d[i].species], 1, <<>>)

RECURSIVE FilterSpecies(_, _, _)
FilterSpecies(d, species, i) ==
    IF i > Len(d) THEN <<>>
    ELSE IF d[i].species = species
         THEN <<d[i]>> \o FilterSpecies(d, species, i + 1)
         ELSE FilterSpecies(d, species, i + 1)

\* variant: the breeds go through a Set
getBreedsBySpecies_dedup(species, d) ==
    LET m == FilterSpecies(d, species, 1) IN
    SetSpread([k \in 1..Len(m) |-> m[k].breed], 1, <<>>)

getBreedsBySpecies(species, d) ==
    LET m == FilterSpecies(d, species, 1) IN [k \in 1..Len(m) |-> m[k].breed]

Range(f) == {f[i] : i \in DOMAIN f}

\* ------------------------------------------------------------- form schema
\* what the user can have typed into the age input (the default value 1
\* behaves as the string "1" in every place the component uses it)
AgeInputs == {"", "0", "1", "3", "-1", "abc"}

\* Number(x) for the strings of AgeInputs, as z.coerce.number() and the
\* arithmetic operators of calculateHumanAge apply it
ToNumber(x) ==
    CASE x = "" -> Num(0)
      [] x = "0" -> Num(0)
      [] x = "1" -> Num(1)
      [] x = "3" -> Num(3)
      [] x = "-1" -> Num(-1)
      [] OTHER -> NaN

\* z.coerce.number().positive()
PositiveNumber(x) == ToNumber(x).t = "num" /\ ToNumber(x).v > 0

formSchema(v) ==
    /\ v.species # ""
    /\ v.breed # ""
    /\ PositiveNumber(v.petAge)

defaultValues == [species |-> "", breed |-> "", petAge |-> "1"]

\* variant: the effect does not look at formState.isValid
ShouldCalculate_noValid(valid, w) ==
    w.species # "" /\ w.breed # "" /\ w.petAge # ""

\* the condition of the calculation effect; a non-empty string is truthy
ShouldCalculate(valid, w) ==
    valid /\ w.species # "" /\ w.breed # "" /\ w.petAge # ""

\* ------------------------------------------------------------------ state
VARIABLES
    data,            \* the reference dataset (never assigned after load)
    call,            \* the last call of a core function and its arguments
    ret,             \* what that call returned
    values,          \* the form's current field values
    isValid,         \* formState.isValid as last computed by the resolver
    validating,      \* a resolver run is outstanding
    watchedValues,   \* watch() as captured by the last render
    renderedValid,   \* formState.isValid as captured by the last render
    depSpecies,      \* selectedSpecies of the last run of the breeds effect
    humanAge,        \* useState humanAge
    availableBreeds, \* useState availableBreeds
    pc,              \* "render", "effect1", "effect2" or "idle"
    dirty            \* a state update during the effects asked for a render

coreVars == <<call, ret>>
formVars == <<values, isValid, validating, watchedValues, renderedValid,
              depSpecies, humanAge, availableBreeds, pc, dirty>>
vars == <<data, call, ret, values, isValid, validating, watchedValues,
          renderedValid, depSpecies, humanAge, availableBreeds, pc, dirty>>

selectedSpecies == watchedValues.species

NoCall == [fn |-> "none"]

\* the component right after its first render, before its effects ran
Mounted ==
    /\ values = defaultValues
    /\ isValid = FALSE
    /\ validating = TRUE
    /\ watchedValues = defaultValues
    /\ renderedValid = FALSE
    /\ depSpecies = "<mount>"
    /\ humanAge = Null
    /\ availableBreeds = <<>>
    /\ pc = "effect1"
    /\ dirty = FALSE

\* ------------------------------------------------- calls of the core API
\* The three functions read their arguments only and keep nothing between
\* calls, so a behaviour of CoreSpec is a dataset and one call on it.
QuerySpecies == SpeciesNames \cup {"dog"}
QueryBreeds == BreedNames \cup {"lab"}
Ages == {Num(n) : n \in (-1)..MaxAge} \cup {NaN}

CoreInit ==
    /\ data \in Datasets
    /\ call = NoCall
    /\ ret = Null
    /\ Mounted

CallCalculateHumanAge ==
    \E s \in QuerySpecies, b \in QueryBreeds, a \in Ages :
        /\ call = NoCall
        /\ call' = [fn |-> "calculateHumanAge", species |-> s, breed |-> b,
                    petAge |-> a]
        /\ ret' = calculateHumanAge(s, b, a, data)
        /\ UNCHANGED <<data, formVars>>

CallGetUniqueSpecies ==
    /\ call = NoCall
    /\ call' = [fn |-> "getUniqueSpecies"]
    /\ ret' = getUniqueSpecies(data)
    /\ UNCHANGED <<data, formVars>>

CallGetBreedsBySpecies ==
    \E s \in QuerySpecies :
        /\ call = NoCall
        /\ call' = [fn |-> "getBreedsBySpecies", species |-> s]
        /\ ret' = getBreedsBySpecies(s, data)
        /\ UNCHANGED <<data, formVars>>

CoreNext ==
    \/ CallCalculateHumanAge
    \/ CallGetUniqueSpecies
    \/ CallGetBreedsBySpecies

CoreSpec == CoreInit /\ [][CoreNext]_vars

\* ------------------------------------------------------ the form component
FormInit ==
    /\ data \in FormDatasets
    /\ call = NoCall
    /\ ret = Null
    /\ Mounted

\* field.onChange: store the value, notify the watchers, start the resolver
FieldChange(name, v) ==
    /\ pc = "idle"
    /\ values' = [values EXCEPT ![name] = v]
    /\ validating' = TRUE
    /\ pc' = "render"
    /\ UNCHANGED <<data, coreVars, isValid, watchedValues, renderedValid,
                   depSpecies, humanAge, availableBreeds, dirty>>

SelectSpecies ==
    \E s \in Range(getUniqueSpecies(data)) :
        /\ s # values.species
        /\ FieldChange("species", s)

SelectBreed ==
    \E b \in Range(availableBreeds) :
        /\ selectedSpecies # ""
        /\ FieldChange("breed", b)

EditAge ==
    \E a \in AgeInputs :
        /\ a # values.petAge
        /\ FieldChange("petAge", a)

\* the resolver finishes: formState.isValid follows the current values
Validate ==
    /\ validating
    /\ validating' = FALSE
    /\ isValid' = formSchema(values)
    /\ IF isValid' # isValid
       THEN /\ pc' = IF pc = "idle" THEN "render" ELSE pc
            /\ dirty' = IF pc \in {"effect1", "effect2"} THEN TRUE ELSE dirty
       ELSE UNCHANGED <<pc, dirty>>
    /\ UNCHANGED <<data, coreVars, values, watchedValues, renderedValid,
                   depSpecies, humanAge, availableBreeds>>

Render ==
    /\ pc = "render"
    /\ watchedValues' = values
    /\ renderedValid' = isValid
    /\ dirty' = FALSE
    /\ pc' = "effect1"
    /\ UNCHANGED <<data, coreVars, values, isValid, validating, depSpecies,
                   humanAge, availableBreeds>>

\* variant: the effect leaves the breed selection alone
BreedsEffect_noReset ==
    /\ pc = "effect1"
    /\ pc' = "effect2"
    /\ depSpecies' = selectedSpecies
    /\ IF depSpecies # selectedSpecies
       THEN /\ dirty' = TRUE
            /\ availableBreeds' =
                  IF selectedSpecies # ""
                  THEN getBreedsBySpecies(selectedSpecies, data)
                  ELSE <<>>
       ELSE UNCHANGED <<availableBreeds, dirty>>
    /\ UNCHANGED <<data, coreVars, values, isValid, validating,
                   watchedValues, renderedValid, humanAge>>

\* useEffect(..., [selectedSpecies, data, form]).  form.setValue stores the
\* value and notifies the watchers; whether it also starts the resolver is
\* the form library's business, so both are allowed.
BreedsEffect ==
    /\ pc = "effect1"
    /\ pc' = "effect2"
    /\ depSpecies' = selectedSpecies
    /\ IF depSpecies # selectedSpecies
       THEN /\ dirty' = TRUE
            /\ IF selectedSpecies # ""
               THEN /\ availableBreeds' =
                           getBreedsBySpecies(selectedSpecies, data)
                    /\ values' = [values EXCEPT !.breed = ""]
                    /\ validating' \in {validating, TRUE}
               ELSE /\ availableBreeds' = <<>>
                    /\ UNCHANGED <<values, validating>>
       ELSE UNCHANGED <<availableBreeds, values, validating, dirty>>
    /\ UNCHANGED <<data, coreVars, isValid, watchedValues, renderedValid,
                   humanAge>>

\* useEffect(..., [watchedValues, formState.isValid, data]); watch() hands
\* out a new object at every render, so the effect runs after every render
AgeEffect ==
    /\ pc = "effect2"
    /\ humanAge' =
          IF ShouldCalculate(renderedValid, watchedValues)
          THEN calculateHumanAge(watchedValues.species, watchedValues.breed,
                                 ToNumber(watchedValues.petAge), data)
          ELSE Null
    /\ pc' = IF dirty \/ humanAge' # humanAge THEN "render" ELSE "idle"
    /\ UNCHANGED <<data, coreVars, values, isValid, validating,
                   watchedValues, renderedValid, depSpecies,
                   availableBreeds, dirty>>

FormNext ==
    \/ SelectSpecies
    \/ SelectBreed
    \/ EditAge
    \/ Validate
    \/ Render
    \/ BreedsEffect
    \/ AgeEffect

FormSpec == FormInit /\ [][FormNext]_vars

FairFormSpec ==
    /\ FormSpec
    /\ WF_vars(Validate)
    /\ WF_vars(Render)
    /\ WF_vars(BreedsEffect)
    /\ WF_vars(AgeEffect)

\* the result panel shows a number
Displayed == renderedValid /\ humanAge # Null

\* nothing is left to run: no render, no effect, no resolver
Settled == pc = "idle" /\ ~validating


\* ------------------------------------------------------ core: properties
\* indices of the records with this (species, breed) pair
Matches(species, breed) ==
    {i \in 1..Len(data) :
        data[i].species = species /\ data[i].breed = breed}

\* record i is the first one with its (species, breed) pair
IsFirstOfKey(i) ==
    \A m \in 1..(i - 1) :
        ~(data[m].species = data[i].species /\ data[m].breed = data[i].breed)

\* the piecewise aging model on integers, for record r and age a
Piecewise(r, a) ==
    IF a <= r.firstPhaseYears
    THEN a * r.firstPhaseValue
    ELSE r.firstPhaseYears * r.firstPhaseValue
         + (a - r.firstPhaseYears) * r.laterPerYear

CalcCalled == call.fn = "calculateHumanAge"

\* C1: calculateHumanAge returns null exactly when no record has both the
\* given species and the given breed (compared exactly); otherwise the
\* result is a number.
C1_NullIffNoRecord ==
    CalcCalled =>
        /\ (ret = Null) <=> (Matches(call.species, call.breed) = {})
        /\ (Matches(call.species, call.breed) # {}) => ret.t \in {"num", "nan"}

\* a record of the species exists in another letter case only: null
C1_Witness ==
    /\ CalcCalled
    /\ call.species = "dog" /\ call.breed = "Lab"
    /\ Matches("Dog", "Lab") # {}
    /\ ret = Null

\* C2: with a matching record and a numeric petAge (zero and negative
\* included), the result is petAge * firstPhaseValue up to firstPhaseYears
\* and firstPhaseYears * firstPhaseValue + (petAge - firstPhaseYears) *
\* laterPerYear beyond, on the fields of a matching record, unrounded and
\* unclamped.
C2_PiecewiseFormula ==
    (CalcCalled /\ call.petAge.t = "num"
        /\ Matches(call.species, call.breed) # {}) =>
        \E i \in Matches(call.species, call.breed) :
            ret = Num(Piecewise(data[i], call.petAge.v))

\* a call in the second phase of a record with a non-empty first phase
C2_Witness ==
    /\ CalcCalled /\ call.petAge.t = "num"
    /\ \E i \in Matches(call.species, call.breed) :
          /\ data[i].firstPhaseYears > 0
          /\ call.petAge.v > data[i].firstPhaseYears
          /\ ret = Num(Piecewise(data[i], call.petAge.v))

\* the call asks for record i at the end of its first phase
AtBoundaryOf(i) ==
    /\ CalcCalled
    /\ call.species = data[i].species /\ call.breed = data[i].breed
    /\ call.petAge = Num(data[i].firstPhaseYears)

\* the value at the phase boundary of record r, by either branch
BoundaryValue(r) ==
    /\ ret = Num(r.firstPhaseYears * r.firstPhaseValue)
    /\ ret = Num(r.firstPhaseYears * r.firstPhaseValue
                 + (r.firstPhaseYears - r.firstPhaseYears) * r.laterPerYear)

\* C3 as stated: for all records r of the dataset, the age of r's (species,
\* breed) at r.firstPhaseYears is r.firstPhaseYears * r.firstPhaseValue, and
\* both branch formulas give that value.
C3_AsStated ==
    \A i \in 1..Len(data) : AtBoundaryOf(i) => BoundaryValue(data[i])

\* C3: for all records r that are the first of the dataset with their
\* (species, breed) pair, the age of r's (species, breed) at
\* r.firstPhaseYears is r.firstPhaseYears * r.firstPhaseValue, and both
\* branch formulas give that value.
C3_BoundaryValue ==
    \A i \in 1..Len(data) :
        (IsFirstOfKey(i) /\ AtBoundaryOf(i)) => BoundaryValue(data[i])

C3_Witness ==
    \E i \in 1..Len(data) :
        /\ IsFirstOfKey(i) /\ AtBoundaryOf(i)
        /\ data[i].firstPhaseYears > 0
        /\ data[i].firstPhaseValue # data[i].laterPerYear
        /\ BoundaryValue(data[i])

\* the result of the call is at most the age computed for every later age
NonDecreasingFromCall ==
    \A b \in Ages :
        (b.t = "num" /\ b.v > call.petAge.v) =>
            JsLeq(ret, calculateHumanAge(call.species, call.breed, b, data))

\* the call asks for record i at a numeric age from 0 on
FromZeroOn(i) ==
    /\ CalcCalled
    /\ call.species = data[i].species /\ call.breed = data[i].breed
    /\ call.petAge.t = "num" /\ call.petAge.v >= 0

PositiveRates(r) == r.firstPhaseValue > 0 /\ r.laterPerYear > 0

\* C4 as stated: for every record with positive firstPhaseValue and
\* laterPerYear and all 0 <= a < b, the age computed for the record's
\* (species, breed) at a is at most the one computed at b.
C4_AsStated ==
    \A i \in 1..Len(data) :
        (PositiveRates(data[i]) /\ FromZeroOn(i)) => NonDecreasingFromCall

\* C4: for every record that is the first of the dataset with its (species,
\* breed) pair and has positive firstPhaseValue and laterPerYear, and all
\* 0 <= a < b, the age computed for the record's (species, breed) at a is at
\* most the one computed at b, also across firstPhaseYears.
C4_Monotone ==
    \A i \in 1..Len(data) :
        (IsFirstOfKey(i) /\ PositiveRates(data[i]) /\ FromZeroOn(i)) =>
            NonDecreasingFromCall

\* a call inside the first phase, with a later age beyond it
C4_Witness ==
    \E i \in 1..Len(data) :
        /\ IsFirstOfKey(i) /\ PositiveRates(data[i]) /\ FromZeroOn(i)
        /\ call.petAge.v < data[i].firstPhaseYears
        /\ data[i].firstPhaseYears < MaxAge
        /\ NonDecreasingFromCall

\* position of the first record of species s
FirstOccurrence(s) ==
    CHOOSE i \in 1..Len(data) :
        /\ data[i].species = s
        /\ \A m \in 1..(i - 1) : data[m].species # s

\* C5: getUniqueSpecies returns every species of the dataset exactly once
\* and nothing else, in the order of the first occurrences; the empty
\* sequence for the empty dataset.
C5_UniqueSpecies ==
    (call.fn = "getUniqueSpecies") =>
        /\ Range(ret) = {data[i].species : i \in 1..Len(data)}
        /\ \A j, k \in 1..Len(ret) : ret[j] = ret[k] => j = k
        /\ \A j, k \in 1..Len(ret) :
              j < k => FirstOccurrence(ret[j]) < FirstOccurrence(ret[k])
        /\ (data = <<>>) => ret = <<>>

\* a repeated species, and an order that is not the alphabetical one
C5_Witness ==
    /\ call.fn = "getUniqueSpecies"
    /\ Len(data) = 3
    /\ data[1].species = "Dog" /\ data[2].species = "Cat"
    /\ data[3].species = "Dog"
    /\ ret = <<"Dog", "Cat">>

\* how many of the first i records have species s
CountUpTo(s, i) == Cardinality({m \in 1..i : data[m].species = s})

\* C6: getBreedsBySpecies returns the breed of every record of the species,
\* one element per record in dataset order, duplicates kept, and the empty
\* sequence when no record matches.
C6_BreedsBySpecies ==
    (call.fn = "getBreedsBySpecies") =>
        /\ Len(ret) = CountUpTo(call.species, Len(data))
        /\ \A i \in 1..Len(data) :
              data[i].species = call.species =>
                  ret[CountUpTo(call.species, i)] = data[i].breed

\* the same breed twice for the species, and both are returned
C6_Witness ==
    /\ call.fn = "getBreedsBySpecies"
    /\ Len(ret) >= 2
    /\ ret[1] = ret[2]

\* C9: when several records have the (species, breed) pair, the result is
\* computed from the first of them in dataset order.
C9_FirstMatch ==
    (CalcCalled /\ call.petAge.t = "num"
        /\ Matches(call.species, call.breed) # {}) =>
        LET first == CHOOSE i \in Matches(call.species, call.breed) :
                        \A m \in Matches(call.species, call.breed) : i <= m
        IN ret = Num(Piecewise(data[first], call.petAge.v))

\* two records of the pair that give different ages, the first one is used
C9_Witness ==
    /\ CalcCalled /\ call.petAge.t = "num"
    /\ \E i, j \in Matches(call.species, call.breed) :
          /\ i < j /\ IsFirstOfKey(i)
          /\ Piecewise(data[i], call.petAge.v)
                # Piecewise(data[j], call.petAge.v)
          /\ ret = Num(Piecewise(data[i], call.petAge.v))

\* ------------------------------------------------------ form: properties
\* the form is valid with a species, a breed and a positive age
Complete ==
    /\ isValid
    /\ values.species # "" /\ values.breed # ""
    /\ PositiveNumber(values.petAge)

\* C8: once everything has settled, the stored human age is non-null only
\* if the form is valid with a non-empty species, a non-empty breed and a
\* positive age, and it is then calculateHumanAge of the three current
\* values; in every other settled state it is null and nothing is displayed.
C8_SettledHumanAge ==
    Settled =>
        IF Complete
        THEN humanAge = calculateHumanAge(values.species, values.breed,
                                          ToNumber(values.petAge), data)
        ELSE humanAge = Null /\ ~Displayed

\* a settled form that shows an age of the later phase
C8_Witness ==
    /\ Settled /\ Complete
    /\ values.petAge = "3"
    /\ humanAge.t = "num"
    /\ Displayed

\* C10: the breed list of a settled form is that of the selected species
\* (empty without a species); every change of the species to a non-empty
\* value leads to an idle form with that species' breeds, no breed selected
\* and no human age; and an idle form without a breed stores no human age.
C10_BreedsFollowSpecies ==
    /\ [](Settled =>
            availableBreeds =
                IF values.species = "" THEN <<>>
                ELSE getBreedsBySpecies(values.species, data))
    /\ [](pc = "idle" /\ values.breed = "" => humanAge = Null)
    /\ \A s \in SpeciesNames :
          (pc = "render" /\ values.species = s /\ depSpecies # s)
              ~> (/\ pc = "idle"
                  /\ values.species = s
                  /\ availableBreeds = getBreedsBySpecies(s, data)
                  /\ values.breed = ""
                  /\ humanAge = Null)

\* a valid form had its breed taken away by a change of species
C10_Witness ==
    /\ Settled
    /\ isValid
    /\ values.species # "" /\ values.breed = ""
    /\ availableBreeds = getBreedsBySpecies(values.species, data)
    /\ Len(availableBreeds) > 0
    /\ humanAge = Null
====
